---- MODULE Spec2Model ----
(***************************************************************************)
(* Model of the resumable download manager of koalas-forge,                *)
(* src/src/core/download_manager.py.                                       *)
(*                                                                         *)
(* A download() call is a coroutine of one asyncio event loop: the code    *)
(* between two awaits runs atomically, so every action below is the code   *)
(* from one suspension point of a call to its next one.  The disk is       *)
(* modelled POSIX-style (directory entries naming inodes), the server as a *)
(* nondeterministic choice among the answers an HTTP server can give.      *)
(***************************************************************************)
EXTENDS Integers, Sequences, FiniteSets, TLC

\* ------------------------------------------------------------------ bounds
\* number of download() invocations in a run
NCalls == 2
\* length, in chunks, of the resource a URL serves
ResourceLen == 2
\* largest max_concurrent a DownloadManager is constructed with
MaxSlots == 2
\* number of progress callbacks that are ever subscribed
NSubs == 2

Calls == 1..NCalls
Urls == {"a", "b"}
Subs == 1..NSubs

\* ------------------------------------------------------------ pure helpers
\* DownloadStatus
PENDING == "pending"
DOWNLOADING == "downloading"
PAUSED == "paused"
COMPLETED == "completed"
FAILED == "failed"
CANCELLED == "cancelled"
DownloadStatus == {PENDING, DOWNLOADING, PAUSED, COMPLETED, FAILED, CANCELLED}

\* download_id = hashlib.md5(url.encode()).hexdigest()
DownloadId(u) == <<"md5", u>>
Ids == {DownloadId(u) : u \in Urls}

\* dest_path = download_dir / filename-of-url ; part_file = dest + ".part"
DestPath(u) == <<u, "">>
PartFile(dest) == <<dest[1], ".part">>
Paths == {DestPath(u) : u \in Urls} \cup {PartFile(DestPath(u)) : u \in Urls}

\* the body a URL serves, chunk by chunk, and the body of an error page
Body(u) == [i \in 1..ResourceLen |-> (IF u = "a" THEN 10 ELSE 20) + i]
ErrorBody == <<99>>

DropFirst(s, k) == SubSeq(s, k + 1, Len(s))

\* DownloadTask.max_retries
max_retries == 3

\* hashlib's hexdigest of a file's content: an ideal (collision-free) hash; a
\* third element marks a hex string written in upper case
HexDigest(alg, content) == <<alg, content>>
Upper(h) == <<h[1], h[2], "upper">>

\* (mutant) the strings are compared as they are
LowerKept(h) == h

\* str.lower()
Lower(h) == IF Len(h) = 3 THEN <<h[1], h[2]>> ELSE h

\* the checksum arguments a caller passes: none, the digest of the resource,
\* or a digest the resource does not have
NoChecksum == <<>>
ChecksumArgs(u) ==
    {NoChecksum, HexDigest("sha256", Body(u)), HexDigest("sha256", ErrorBody)}

\* ---------------------------------------------------------------- EventBus
NHandlers == 3
MaxPriority == 1
MaxInvocations == 6

Handlers == 1..NHandlers
Priorities == 0..MaxPriority

\* two members of EventType (18-64); PLUGIN_ERROR is the type of the event
\* _safe_handler_call emits
DOWNLOAD_STARTED == "download.started"
PLUGIN_ERROR == "plugin.error"
EventTypes == {DOWNLOAD_STARTED, PLUGIN_ERROR}

\* lines 97-105: EventBus.__init__; ready, emitting, event and trace are not
\* fields of the object: ready holds the _safe_handler_call coroutines that
\* asyncio.gather has scheduled and that have not run yet, emitting says
\* that an emit() made from outside has not returned, event is the type of
\* its event, and trace is the history of the handler calls since it began
\* (kept after it returned until the listeners change)
NewBus ==
    [sync_listeners |-> [t \in EventTypes |-> <<>>],
     async_listeners |-> [t \in EventTypes |-> <<>>],
     wildcard_listeners |-> <<>>,
     ready |-> <<>>, emitting |-> FALSE, event |-> "", trace |-> <<>>]

\* ------------------------------------------------------------------- state
VARIABLES
    max_concurrent,   \* DownloadManager.max_concurrent
    semaphore,        \* free slots of DownloadManager.semaphore
    downloads,        \* DownloadManager.downloads: id -> task (0: no entry)
    tasks,            \* the DownloadTask / DownloadProgress a call created
    co,               \* each download() coroutine: where it is, its locals
    dir,              \* the directory: path -> inode (0: no such file)
    data,             \* inode -> content, a sequence of chunks
    progress_callbacks, \* DownloadManager._progress_callbacks: the weak
                      \* references in the set, each named by its referent
    referents,        \* the callback objects: "none" (not created), "ok"
                      \* (alive), "raises" (alive, raises an Exception when
                      \* called), "dead" (collected)
    last_notify,      \* history: what the last _notify_progress() did
    bus               \* the EventBus (event_system.py): its listener lists,
                      \* the handler calls emit() has scheduled, and the
                      \* history of the handler calls of the last emit()

vars == <<max_concurrent, semaphore, downloads, tasks, co, dir, data,
          progress_callbacks, referents, last_notify, bus>>

\* a call that has not created its DownloadTask yet
NoTask ==
    [url |-> "", checksum |-> NoChecksum, checksum_type |-> "",
     status |-> "none", downloaded_size |-> 0, total_size |-> 0,
     error |-> "", retry_count |-> 0]

\* DownloadTask.__post_init__ / DownloadProgress defaults
NewTask(u, ck, ct) ==
    [url |-> u, checksum |-> ck, checksum_type |-> ct,
     status |-> PENDING, downloaded_size |-> 0, total_size |-> 0,
     error |-> "", retry_count |-> 0]

\* a coroutine that has not been called yet.  progress_callback is the
\* callback passed to download() (0: None), which task._callbacks refers to
\* from line 243 until the finally at line 260.  cancel_at is history, not a
\* local of the code: the downloaded_size at which cancel_download() was
\* called on the task while it streamed (-1: it was not, or the
\* specification does not record it)
Idle ==
    [pc |-> "idle", resume |-> FALSE, existing_size |-> 0, range |-> 0,
     http |-> 0, body |-> <<>>, ino |-> 0, mode |-> "", reqs |-> 0,
     progress_callback |-> 0, cancel_at |-> -1]

\* no _notify_progress() call has been made
NotNotified ==
    [invoked |-> [s \in Subs |-> 0], pruned |-> {}, task |-> 0, status |-> "none"]

Init ==
    /\ max_concurrent \in 1..MaxSlots
    /\ semaphore = max_concurrent
    /\ downloads = [i \in Ids |-> 0]
    /\ tasks = [c \in Calls |-> NoTask]
    /\ co = [c \in Calls |-> Idle]
    /\ dir = [p \in Paths |-> 0]
    /\ data = [i \in Calls |-> <<>>]
    /\ progress_callbacks = {}
    /\ referents = [s \in Subs |-> "none"]
    /\ last_notify = NotNotified
    /\ bus = NewBus

\* ---------------------------------------------------------------- the disk
Exists(path) == dir[path] # 0
StatSize(path) == Len(data[dir[path]])
Content(path) == data[dir[path]]

\* an inode neither named by the directory nor held open is freed
Reclaim(d, dat, l) ==
    [i \in Calls |->
        IF (\E p \in Paths : d[p] = i) \/ (\E c \in Calls : l[c].ino = i)
        THEN dat[i] ELSE <<>>]

\* f.write(chunk): at the end of the file in append mode, else at the
\* handle's own position (a position beyond the end leaves a hole of zeros)
WriteAt(content, pos, chunk) ==
    IF pos < Len(content)
    THEN [content EXCEPT ![pos + 1] = chunk]
    ELSE content \o [i \in 1..(pos - Len(content)) |-> 0] \o <<chunk>>

Written(content, mode, pos, chunk) ==
    IF mode = "ab" THEN Append(content, chunk) ELSE WriteAt(content, pos, chunk)

\* ------------------------------------------------------------ _verify_checksum
\* (mutant) crc32 is computed too
KnownAlgorithmsAndCrc == {"md5", "sha1", "sha256", "crc32"}

\* lines 376-381: the names _verify_checksum has a hasher for
KnownAlgorithms == {"md5", "sha1", "sha256"}

VerifyChecksum(path, expected, checksum_type) ==
    IF checksum_type \notin KnownAlgorithms THEN TRUE
    ELSE IF ~Exists(path) THEN FALSE
    ELSE Lower(HexDigest(checksum_type, Content(path))) = Lower(expected)

\* ------------------------------------------------------------------ server
\* int(response.headers.get(name, 0)); -1 stands for a header that is absent
HeaderInt(h) == IF h = -1 THEN 0 ELSE h

\* The answers a server can give to GET url with "Range: bytes=<range>-"
\* (range = 0: no Range header): the full body with its Content-Length; the rest of the body as
\* partial content, with or without a Content-Range; an error page (range not satisfiable when the range
\* starts at or after the end of the resource, not found otherwise).
Answers(u, range) ==
    LET n == Len(Body(u)) IN
    {[status |-> 200, content_range |-> -1, content_length |-> n, body |-> Body(u)]}
    \cup
    {[status |-> 206, content_range |-> cr, content_length |-> n - range,
      body |-> DropFirst(Body(u), range)]
        : cr \in IF 0 < range /\ range < n THEN {n, -1} ELSE {}}
    \cup
    {[status |-> st, content_range |-> -1, content_length |-> Len(ErrorBody),
      body |-> ErrorBody]
        : st \in IF range >= n THEN {416} ELSE {404}}

\* ---------------------------------------------------------- _notify_progress
\* the orders in which `for weak_callback in self._progress_callbacks` can
\* go through the set
Orders(set) ==
    {o \in [1..Cardinality(set) -> set] :
        \A i, j \in 1..Cardinality(set) : o[i] = o[j] => i = j}

\* weak_callback() is not None
Alive(refs, s) == refs[s] \in {"ok", "raises", "stalls", "stalled"}

\* (mutant) dead references are left in the set
NoDeadRefs(set, refs) == {}

\* lines 177-183: the references whose referent has been collected
DeadRefs(set, refs) == {s \in set : ~Alive(refs, s)}

\* (mutant) the call of a callback is not guarded
CallbackErrorPropagates == FALSE

\* lines 185-188: try / except Exception around the call of one callback
CallbackErrorCaught == TRUE

\* lines 180-188: the callbacks the loop calls when it visits the
\* references in the order o, each as often as it is called; an exception
\* that is not caught ends the loop, and so does a callback that does not
\* return (line 186 is a plain call)
RECURSIVE Called(_, _, _)
Called(o, refs, i) ==
    IF i > Len(o) THEN [s \in Subs |-> 0]
    ELSE IF ~Alive(refs, o[i]) THEN Called(o, refs, i + 1)
    ELSE IF \/ refs[o[i]] = "raises" /\ ~CallbackErrorCaught
            \/ refs[o[i]] = "stalls"
         THEN [s \in Subs |-> IF s = o[i] THEN 1 ELSE 0]
    ELSE [s \in Subs |-> Called(o, refs, i + 1)[s] + (IF s = o[i] THEN 1 ELSE 0)]

\* the loop was left by an exception
Escapes(o, refs) ==
    ~CallbackErrorCaught /\ \E i \in 1..Len(o) : refs[o[i]] = "raises"

\* the loop reaches a callback that does not return
Stuck(o, refs) == \E i \in 1..Len(o) : refs[o[i]] = "stalls"

\* the callbacks after the loop: the first one that does not return is
\* being executed from then on
Entered(o, refs) ==
    IF Stuck(o, refs)
    THEN LET i == CHOOSE k \in 1..Len(o) :
                     /\ refs[o[k]] = "stalls"
                     /\ \A j \in 1..(k - 1) : refs[o[j]] # "stalls"
         IN  [refs EXCEPT ![o[i]] = "stalled"]
    ELSE refs

\* lines 174-191: one _notify_progress() call on the set, visiting it in the
\* order o: the set and the callbacks afterwards and the record of the call
NotifyProgress(set, refs, o) ==
    LET dead_refs == IF Escapes(o, refs) \/ Stuck(o, refs)
                     THEN {} ELSE DeadRefs(set, refs) IN
    [set |-> set \ dead_refs,
     refs |-> Entered(o, refs),
     rec |-> [invoked |-> Called(o, refs, 1), pruned |-> dead_refs,
              task |-> 0, status |-> "none"]]

\* line 186 `callback(progress)`: what the subscribers are handed is the
\* progress of the task as the publishing step leaves it; the record keeps it
\* when at least one callback was called
Delivered(rec, c) ==
    IF \E s \in Subs : rec.invoked[s] > 0
    THEN [rec EXCEPT !.task = c, !.status = tasks'[c].status]
    ELSE rec

\* an action publishes the progress of call c once
Notify(c) ==
    /\ \E o \in Orders(progress_callbacks) :
          LET n == NotifyProgress(progress_callbacks, referents, o) IN
          /\ progress_callbacks' = n.set
          /\ referents' = n.refs
          /\ last_notify' = Delivered(n.rec, c)
    /\ UNCHANGED bus

\* an action publishes twice: the handler of _download_file (370) and the
\* handler of download() (256) both call _notify_progress
NotifyTwice(c) ==
    /\ \E o1 \in Orders(progress_callbacks) :
          LET n1 == NotifyProgress(progress_callbacks, referents, o1) IN
          IF Stuck(o1, referents)
          THEN /\ progress_callbacks' = n1.set
               /\ referents' = n1.refs
               /\ last_notify' = Delivered(n1.rec, c)
          ELSE \E o2 \in Orders(n1.set) :
                  LET n2 == NotifyProgress(n1.set, referents, o2) IN
                  /\ progress_callbacks' = n2.set
                  /\ referents' = n2.refs
                  /\ last_notify' = Delivered(n2.rec, c)
    /\ UNCHANGED bus

\* a publish now would not return: a subscribed callback does not return
Stalling == \E s \in progress_callbacks : referents[s] = "stalls"

\* an action does not publish
Quiet == UNCHANGED <<progress_callbacks, referents, last_notify, bus>>

\* ----------------------------------------------------- _download_file, pieces
\* lines 283-299: look for a partial download, prepare the Range header, set
\* DOWNLOADING and issue the request
\* (mutant) the request never carries a Range header
RangeHeaderNone(resume, existing_size) == 0

\* (mutant) a part file of one chunk is not resumed
RangeHeaderAboveOne(resume, existing_size) ==
    IF existing_size > 1 /\ resume THEN existing_size ELSE 0

RangeHeader(resume, existing_size) ==
    IF existing_size > 0 /\ resume THEN existing_size ELSE 0

BeginTransfer(c, t, l) ==
    LET part == PartFile(DestPath(t.url))
        found == l.resume /\ Exists(part)
        existing == IF found THEN StatSize(part) ELSE 0
    IN  [t |-> [t EXCEPT !.downloaded_size = IF found THEN existing ELSE @,
                         !.status = DOWNLOADING],
         l |-> [l EXCEPT !.existing_size = existing,
                         !.range = RangeHeader(l.resume, existing),
                         !.pc = "get",
                         !.reqs = @ + 1]]

\* (mutant) an existing destination is not looked at
EnterFileAlwaysTransfers(c, t, l) == BeginTransfer(c, t, l)

\* lines 266-299: what a call does from the moment it holds a slot up to its
\* first await: the return of an existing destination without checksum, the
\* wait for the verification of an existing destination, or the request
EnterFile(c, t, l) ==
    IF Exists(DestPath(t.url))
    THEN IF t.checksum # NoChecksum
         THEN [t |-> t, l |-> [l EXCEPT !.pc = "verify_dest"]]
         ELSE [t |-> [t EXCEPT !.status = COMPLETED],
               l |-> [l EXCEPT !.pc = "returned"]]
    ELSE BeginTransfer(c, t, l)

\* the locals of a call that has left download()
Left(l, pc) ==
    [l EXCEPT !.pc = pc, !.resume = FALSE, !.existing_size = 0, !.range = 0,
              !.http = 0, !.body = <<>>, !.ino = 0, !.mode = "",
              !.progress_callback = 0, !.cancel_at = -1]

\* the locals of a call whose last step publishes and then leaves download()
\* (276-277, 355-358, 362-364, 370-371 and 256-257): the call stays inside
\* _notify_progress when the publish does not return
Leave(l, pc) ==
    IF Stalling THEN Left(l, "publish") ELSE Left(l, pc)

\* (mutant) the exit of download() does not give the slot back
ReleaseNever == semaphore

\* line 248, the exit of `async with self.semaphore`, reached only when
\* the publish before it returns
Release == IF Stalling THEN semaphore ELSE semaphore + 1

\* lines 297-302: the request is sent when the publish of DOWNLOADING returns
Requesting(l) ==
    IF l.pc = "get" /\ Stalling
    THEN [l EXCEPT !.pc = "publish", !.reqs = @ - 1]
    ELSE l

\* (mutant) an exception is retried while the retry budget lasts
RaiseOrRetry(c, err) ==
    /\ IF tasks[c].retry_count < max_retries
       THEN /\ tasks' = [tasks EXCEPT ![c].retry_count = @ + 1]
            /\ co' = [co EXCEPT ![c].pc = "get", ![c].ino = 0, ![c].reqs = @ + 1]
            /\ UNCHANGED semaphore
            /\ Quiet
       ELSE /\ tasks' = [tasks EXCEPT ![c].status = FAILED, ![c].error = err]
            /\ co' = [co EXCEPT ![c] = Leave(@, "raised")]
            /\ semaphore' = Release
            /\ NotifyTwice(c)
    /\ data' = Reclaim(dir, data, co')
    /\ UNCHANGED <<max_concurrent, downloads, dir>>

\* (mutant) the exception leaves download() without releasing the slot
RaiseKeepsSlot(c, err) ==
    /\ tasks' = [tasks EXCEPT ![c].status = FAILED, ![c].error = err]
    /\ co' = [co EXCEPT ![c] = Leave(@, "raised")]
    /\ data' = Reclaim(dir, data, co')
    /\ NotifyTwice(c)
    /\ UNCHANGED <<max_concurrent, semaphore, downloads, dir>>

\* lines 366-371 and 252-257: an exception marks the task FAILED, records the
\* error and leaves download(), which releases the slot
Raise(c, err) ==
    /\ tasks' = [tasks EXCEPT ![c].status = FAILED, ![c].error = err]
    /\ co' = [co EXCEPT ![c] = Leave(@, "raised")]
    /\ semaphore' = Release
    /\ data' = Reclaim(dir, data, co')
    /\ NotifyTwice(c)
    /\ UNCHANGED <<max_concurrent, downloads, dir>>

\* lines 274 and 252-257: an exception raised before the try of
\* _download_file (the stat of a destination that is gone) reaches the
\* handler of download() alone, which publishes once
RaiseOutside(c, err) ==
    /\ tasks' = [tasks EXCEPT ![c].status = FAILED, ![c].error = err]
    /\ co' = [co EXCEPT ![c] = Leave(@, "raised")]
    /\ semaphore' = Release
    /\ data' = Reclaim(dir, data, co')
    /\ Notify(c)
    /\ UNCHANGED <<max_concurrent, downloads, dir>>

\* --------------------------------------------------------------- download()
\* (mutant) a gate that lets every caller through
SemaphoreNeverLocked == FALSE

\* asyncio.Semaphore.locked(): no free slot
SemaphoreLocked == semaphore = 0

\* lines 218-251: download(url, checksum=ck, checksum_type=ct, resume=r,
\* progress_callback=cb): create and register the task, then either take a
\* slot and run to the first await or wait for a slot
DownloadAs(c, u, ck, ct, r, cb) ==
    /\ co[c].pc = "idle"
    /\ \A d \in Calls : d < c => co[d].pc # "idle"   \* calls are numbered in order
    /\ c = 1 => u = "a"                               \* the first URL used is "a"
    /\ cb # 0 => Alive(referents, cb)
    /\ downloads' = [downloads EXCEPT ![DownloadId(u)] = c]
    /\ LET t0 == NewTask(u, ck, ct)
           l0 == [co[c] EXCEPT !.resume = r, !.progress_callback = cb]
       IN  IF SemaphoreLocked
           THEN /\ tasks' = [tasks EXCEPT ![c] = t0]
                /\ co' = [co EXCEPT ![c] = [l0 EXCEPT !.pc = "acquire"]]
                /\ UNCHANGED semaphore
                /\ Quiet
           ELSE LET n == EnterFile(c, t0, l0) IN
                /\ tasks' = [tasks EXCEPT ![c] = n.t]
                /\ co' = [co EXCEPT ![c] = Requesting(n.l)]
                /\ semaphore' = IF n.l.pc = "returned" THEN semaphore ELSE semaphore - 1
                /\ IF n.l.pc = "get" THEN Notify(c) ELSE Quiet
    /\ UNCHANGED <<max_concurrent, dir, data>>

\* download() with the default checksum_type and no progress_callback
Download(c, u, ck, r) == DownloadAs(c, u, ck, "sha256", r, 0)

\* line 248: a waiting call gets a slot
Acquire(c) ==
    /\ co[c].pc = "acquire"
    /\ ~SemaphoreLocked
    /\ LET n == EnterFile(c, tasks[c], co[c]) IN
       /\ tasks' = [tasks EXCEPT ![c] = n.t]
       /\ co' = [co EXCEPT ![c] = Requesting(n.l)]
       /\ semaphore' = IF n.l.pc = "returned" THEN semaphore ELSE semaphore - 1
       /\ IF n.l.pc = "get" THEN Notify(c) ELSE Quiet
    /\ UNCHANGED <<max_concurrent, downloads, dir, data>>

\* (mutant) an existing destination is returned whatever the verification says
VerifiedDestTrusted(c) ==
    /\ co[c].pc = "verify_dest"
    /\ tasks' = [tasks EXCEPT ![c].status = COMPLETED,
                              ![c].downloaded_size = StatSize(DestPath(tasks[c].url)),
                              ![c].total_size = StatSize(DestPath(tasks[c].url))]
    /\ co' = [co EXCEPT ![c] = Leave(@, "returned")]
    /\ semaphore' = Release
    /\ Notify(c)
    /\ UNCHANGED <<max_concurrent, downloads, dir, data>>

\* lines 271-277: the verification of the existing destination has finished;
\* the stat at 274 raises when the verification did not read the file
\* (unknown algorithm) and the file is gone
VerifiedDest(c) ==
    /\ co[c].pc = "verify_dest"
    /\ LET t == tasks[c]
           dest == DestPath(t.url)
       IN  IF VerifyChecksum(dest, t.checksum, t.checksum_type)
           THEN IF ~Exists(dest)
                THEN RaiseOutside(c, "io")
                ELSE /\ tasks' = [tasks EXCEPT ![c].status = COMPLETED,
                                               ![c].downloaded_size = StatSize(dest),
                                               ![c].total_size = StatSize(dest)]
                     /\ co' = [co EXCEPT ![c] = Leave(@, "returned")]
                     /\ semaphore' = Release
                     /\ Notify(c)
                     /\ UNCHANGED <<max_concurrent, downloads, dir, data>>
           ELSE LET n == BeginTransfer(c, t, co[c]) IN
                /\ tasks' = [tasks EXCEPT ![c] = n.t]
                /\ co' = [co EXCEPT ![c] = Requesting(n.l)]
                /\ Notify(c)
                /\ UNCHANGED <<max_concurrent, semaphore, downloads, dir, data>>

\* (mutant) the total is the Content-Length of this response alone
TotalSizeOfResponse(r, existing_size) == HeaderInt(r.content_length)

\* lines 312-321
TotalSize(r, existing_size) ==
    IF r.status = 206
    THEN IF r.content_range # -1 THEN r.content_range
         ELSE existing_size + HeaderInt(r.content_length)
    ELSE HeaderInt(r.content_length)

\* (mutant) every answer to a Range request restarts from zero
FallbackAlways(existing_size, status) == existing_size > 0

\* (mutant) a full-content answer is treated like partial content
FallbackNever(existing_size, status) == FALSE

\* line 304: the server did not honour the Range header
Fallback(existing_size, status) == existing_size > 0 /\ status # 206

\* (mutant) the part file is always opened for appending
ModeAppend(existing_size) == "ab"

\* line 326
Mode(existing_size) == IF existing_size > 0 THEN "ab" ELSE "wb"

\* lines 302-326: the response headers have arrived
Response(c, r) ==
    /\ co[c].pc = "get"
    /\ r \in Answers(tasks[c].url, co[c].range)
    /\ LET part == PartFile(DestPath(tasks[c].url))
           fallback == Fallback(co[c].existing_size, r.status)
           existing == IF fallback THEN 0 ELSE co[c].existing_size
       IN  /\ tasks' = [tasks EXCEPT
                  ![c].downloaded_size = IF fallback THEN 0 ELSE @,
                  ![c].total_size = TotalSize(r, existing)]
           /\ co' = [co EXCEPT ![c].pc = "open",
                               ![c].http = r.status,
                               ![c].existing_size = existing,
                               ![c].mode = Mode(existing),
                               ![c].body = r.body]
           /\ dir' = IF fallback THEN [dir EXCEPT ![part] = 0] ELSE dir
           /\ data' = Reclaim(dir', data, co')
    /\ Quiet
    /\ UNCHANGED <<max_concurrent, semaphore, downloads>>

\* line 327: aiofiles.open(part_file, mode) has opened the part file
Open(c) ==
    /\ co[c].pc = "open"
    /\ LET part == PartFile(DestPath(tasks[c].url))
           ino == IF Exists(part) THEN dir[part] ELSE c
       IN  /\ dir' = [dir EXCEPT ![part] = ino]
           /\ data' = [data EXCEPT ![ino] =
                          IF co[c].mode = "wb" \/ ~Exists(part) THEN <<>> ELSE @]
           /\ co' = [co EXCEPT ![c].pc = "stream", ![c].ino = ino]
    /\ Quiet
    /\ UNCHANGED <<max_concurrent, semaphore, downloads, tasks>>

\* lines 329-342: a chunk has arrived and has been written; the progress is
\* published when 0.5 s have passed since the last time
Chunk(c) ==
    /\ co[c].pc = "stream"
    /\ co[c].body # <<>>
    /\ data' = [data EXCEPT ![co[c].ino] =
                   Written(@, co[c].mode, tasks[c].downloaded_size, Head(co[c].body))]
    /\ tasks' = [tasks EXCEPT ![c].downloaded_size = @ + 1]
    /\ \E due \in BOOLEAN :
          /\ co' = [co EXCEPT ![c].body = Tail(@),
                              ![c].pc = IF due /\ Stalling THEN "publish" ELSE @]
          /\ IF due THEN Notify(c) ELSE Quiet
    /\ UNCHANGED <<max_concurrent, semaphore, downloads, dir>>

\* the body is exhausted: the part file is closed
EndOfBody(c) ==
    /\ co[c].pc = "stream"
    /\ co[c].body = <<>>
    /\ co' = [co EXCEPT ![c].pc = "finish", ![c].ino = 0]
    /\ data' = Reclaim(dir, data, co')
    /\ Quiet
    /\ UNCHANGED <<max_concurrent, semaphore, downloads, tasks, dir>>

\* (mutant) the part file is moved without looking at the verification
VerificationSkipped(t, part) == FALSE

\* lines 345-346
VerificationFailed(t, part) ==
    t.checksum # NoChecksum /\ ~VerifyChecksum(part, t.checksum, t.checksum_type)

\* (mutant) the task is marked COMPLETED before the part file is moved, and
\* stays so when there is nothing to move
FinishMarksFirst(c) ==
    /\ co[c].pc = "finish"
    /\ LET t == tasks[c]
           dest == DestPath(t.url)
           part == PartFile(dest)
       IN  IF VerificationFailed(t, part)
           THEN Raise(c, "checksum")
           ELSE /\ dir' = IF Exists(part)
                          THEN [dir EXCEPT ![dest] = dir[part], ![part] = 0]
                          ELSE dir
                /\ tasks' = [tasks EXCEPT ![c].status = COMPLETED]
                /\ co' = [co EXCEPT ![c] = Leave(@, "returned")]
                /\ semaphore' = Release
                /\ data' = Reclaim(dir', data, co')
                /\ Notify(c)
                /\ UNCHANGED <<max_concurrent, downloads>>

\* lines 344-358: verify the part file, move it to the destination
Finish(c) ==
    /\ co[c].pc = "finish"
    /\ LET t == tasks[c]
           dest == DestPath(t.url)
           part == PartFile(dest)
       IN  IF VerificationFailed(t, part)
           THEN Raise(c, "checksum")
           ELSE IF ~Exists(part)
           THEN Raise(c, "io")
           ELSE /\ dir' = [dir EXCEPT ![dest] = dir[part], ![part] = 0]
                /\ tasks' = [tasks EXCEPT ![c].status = COMPLETED]
                /\ co' = [co EXCEPT ![c] = Leave(@, "returned")]
                /\ semaphore' = Release
                /\ data' = Reclaim(dir', data, co')
                /\ Notify(c)
                /\ UNCHANGED <<max_concurrent, downloads>>

\* a network or I/O fault: the request fails, the part file cannot be
\* opened, the connection breaks before the body is complete
Fault(c) ==
    /\ \/ co[c].pc \in {"get", "open"}
       \/ co[c].pc = "stream" /\ co[c].body # <<>>
    /\ Raise(c, "fault")

\* (mutant) a cancelled transfer cleans its part file up
TaskCancelRemovesPart(c) ==
    /\ co[c].pc \in {"acquire", "verify_dest", "get", "open", "stream", "finish"}
    /\ tasks' = [tasks EXCEPT ![c].status =
                    IF co[c].pc \in {"acquire", "verify_dest"} THEN @ ELSE CANCELLED]
    /\ co' = [co EXCEPT ![c] = IF co[c].pc \in {"acquire", "verify_dest"}
                                THEN Left(@, "cancelled") ELSE Leave(@, "cancelled")]
    /\ semaphore' = IF co[c].pc = "acquire" THEN semaphore
                    ELSE IF co[c].pc = "verify_dest" THEN semaphore + 1
                    ELSE Release
    /\ dir' = IF co[c].pc \in {"acquire", "verify_dest"} THEN dir
              ELSE [dir EXCEPT ![PartFile(DestPath(tasks[c].url))] = 0]
    /\ data' = Reclaim(dir', data, co')
    /\ IF co[c].pc \in {"acquire", "verify_dest"} THEN Quiet ELSE Notify(c)
    /\ UNCHANGED <<max_concurrent, downloads>>

\* lines 360-364 and 258-260: asyncio cancels the coroutine at an await;
\* inside the try of _download_file the task becomes CANCELLED
TaskCancel(c) ==
    /\ co[c].pc \in {"acquire", "verify_dest", "get", "open", "stream", "finish"}
    /\ tasks' = [tasks EXCEPT ![c].status =
                    IF co[c].pc \in {"acquire", "verify_dest"} THEN @ ELSE CANCELLED]
    /\ co' = [co EXCEPT ![c] = IF co[c].pc \in {"acquire", "verify_dest"}
                                THEN Left(@, "cancelled") ELSE Leave(@, "cancelled")]
    /\ semaphore' = IF co[c].pc = "acquire" THEN semaphore
                    ELSE IF co[c].pc = "verify_dest" THEN semaphore + 1
                    ELSE Release
    /\ data' = Reclaim(dir, data, co')
    /\ IF co[c].pc \in {"acquire", "verify_dest"} THEN Quiet ELSE Notify(c)
    /\ UNCHANGED <<max_concurrent, downloads, dir>>

\* lines 402-407
PauseDownload(id) ==
    /\ downloads[id] # 0
    /\ tasks' = [tasks EXCEPT ![downloads[id]].status = PAUSED]
    /\ Notify(downloads[id])
    /\ UNCHANGED <<max_concurrent, semaphore, downloads, co, dir, data>>

\* lines 409-414
CancelDownload(id) ==
    /\ downloads[id] # 0
    /\ tasks' = [tasks EXCEPT ![downloads[id]].status = CANCELLED]
    /\ Notify(downloads[id])
    /\ UNCHANGED <<max_concurrent, semaphore, downloads, co, dir, data>>

\* lines 409-414, with the history of the call recorded: cancel_at becomes
\* the downloaded_size of the task when the call finds it streaming
CancelDownloadRecorded(id) ==
    /\ downloads[id] # 0
    /\ tasks' = [tasks EXCEPT ![downloads[id]].status = CANCELLED]
    /\ co' = [co EXCEPT ![downloads[id]].cancel_at =
                 IF co[downloads[id]].pc = "stream" /\ @ = -1
                 THEN tasks[downloads[id]].downloaded_size ELSE @]
    /\ Notify(downloads[id])
    /\ UNCHANGED <<max_concurrent, semaphore, downloads, dir, data>>

\* (mutant) a paused task counts as finished
TerminalOrPaused == {COMPLETED, FAILED, CANCELLED, PAUSED}

\* lines 421-435
Terminal == {COMPLETED, FAILED, CANCELLED}

ClearCompleted ==
    /\ downloads' = [i \in Ids |->
          IF downloads[i] # 0 /\ tasks[downloads[i]].status \in Terminal
          THEN 0 ELSE downloads[i]]
    /\ downloads' # downloads
    /\ Quiet
    /\ UNCHANGED <<max_concurrent, semaphore, tasks, co, dir, data>>

Next ==
    \/ \E c \in Calls, u \in Urls, r \in BOOLEAN :
          \E ck \in ChecksumArgs(u) : Download(c, u, ck, r)
    \/ \E c \in Calls : Acquire(c)
    \/ \E c \in Calls : VerifiedDest(c)
    \/ \E c \in Calls : \E r \in Answers(tasks[c].url, co[c].range) : Response(c, r)
    \/ \E c \in Calls : Open(c)
    \/ \E c \in Calls : Chunk(c)
    \/ \E c \in Calls : EndOfBody(c)
    \/ \E c \in Calls : Finish(c)
    \/ \E c \in Calls : Fault(c)
    \/ \E c \in Calls : TaskCancel(c)
    \/ \E i \in Ids : PauseDownload(i)
    \/ \E i \in Ids : CancelDownload(i)
    \/ ClearCompleted

Spec == Init /\ [][Next]_vars

\* The same manager used by callers that never have two download() calls
\* for one identity in flight at the same time.
Running == {"acquire", "verify_dest", "get", "open", "stream", "finish"}

DownloadExclusive(c, u, ck, r) ==
    /\ \A d \in Calls : co[d].pc \in Running => tasks[d].url # u
    /\ Download(c, u, ck, r)

NextExclusive ==
    \/ \E c \in Calls, u \in Urls, r \in BOOLEAN :
          \E ck \in ChecksumArgs(u) : DownloadExclusive(c, u, ck, r)
    \/ \E c \in Calls : Acquire(c)
    \/ \E c \in Calls : VerifiedDest(c)
    \/ \E c \in Calls : \E r \in Answers(tasks[c].url, co[c].range) : Response(c, r)
    \/ \E c \in Calls : Open(c)
    \/ \E c \in Calls : Chunk(c)
    \/ \E c \in Calls : EndOfBody(c)
    \/ \E c \in Calls : Finish(c)
    \/ \E c \in Calls : Fault(c)
    \/ \E c \in Calls : TaskCancel(c)
    \/ \E i \in Ids : PauseDownload(i)
    \/ \E i \in Ids : CancelDownload(i)
    \/ ClearCompleted

SpecExclusive == Init /\ [][NextExclusive]_vars

\* The same manager used by a caller that awaits each download() before it
\* makes the next one (no call ever waits for a slot), with the history of
\* cancel_download() recorded in cancel_at.
DownloadSeq(c, u, ck, r) ==
    /\ \A d \in Calls : co[d].pc \notin Running
    /\ Download(c, u, ck, r)

NextCancel ==
    \/ \E c \in Calls, u \in Urls, r \in BOOLEAN :
          \E ck \in ChecksumArgs(u) : DownloadSeq(c, u, ck, r)
    \/ \E c \in Calls : VerifiedDest(c)
    \/ \E c \in Calls : \E r \in Answers(tasks[c].url, co[c].range) : Response(c, r)
    \/ \E c \in Calls : Open(c)
    \/ \E c \in Calls : Chunk(c)
    \/ \E c \in Calls : EndOfBody(c)
    \/ \E c \in Calls : Finish(c)
    \/ \E c \in Calls : Fault(c)
    \/ \E c \in Calls : TaskCancel(c)
    \/ \E i \in Ids : PauseDownload(i)
    \/ \E i \in Ids : CancelDownloadRecorded(i)
    \/ ClearCompleted

SpecCancel == Init /\ [][NextCancel]_vars

\* The manager used by a caller that awaits each download() before it makes
\* the next one and names an algorithm _verify_checksum has no hasher for,
\* with digests of the body and of something else; no faults, no
\* cancellation.
UnknownAlgorithms == {"crc32"}

DownloadUnchecked(c, u, ck, ct, r) ==
    /\ ct \in UnknownAlgorithms
    /\ \A d \in Calls : co[d].pc \notin Running
    /\ DownloadAs(c, u, ck, ct, r, 0)

\* -------------------------------------------------------------- subscribers
\* lines 147-161: the manager keeps a weak reference to the callback; a
\* reference to a callback that is already in the set is equal to the one
\* there.  kind is what the callback does when it is called.
AddProgressCallback(s, kind) ==
    /\ \A q \in Subs : q < s => referents[q] # "none"   \* created in order
    /\ \/ referents[s] = "none"
       \/ referents[s] = kind
    /\ referents' = [referents EXCEPT ![s] = kind]
    /\ progress_callbacks' = progress_callbacks \cup {s}
    /\ UNCHANGED <<max_concurrent, semaphore, downloads, tasks, co, dir, data,
                   last_notify, bus>>

\* (mutant) the removal empties the subscriber set
RemoveProgressCallbackAll(s) ==
    /\ Alive(referents, s)
    /\ progress_callbacks' = {}
    /\ UNCHANGED <<max_concurrent, semaphore, downloads, tasks, co, dir, data,
                   referents, last_notify, bus>>

\* lines 163-172: drops the reference to the callback and every dead one
RemoveProgressCallback(s) ==
    /\ Alive(referents, s)
    /\ progress_callbacks' =
          {w \in progress_callbacks : Alive(referents, w) /\ w # s}
    /\ UNCHANGED <<max_concurrent, semaphore, downloads, tasks, co, dir, data,
                   referents, last_notify, bus>>

\* the caller defines a callback without subscribing it
NewCallback(s, kind) ==
    /\ \A q \in Subs : q < s => referents[q] # "none"   \* created in order
    /\ referents[s] = "none"
    /\ referents' = [referents EXCEPT ![s] = kind]
    /\ UNCHANGED <<max_concurrent, semaphore, downloads, tasks, co, dir, data,
                   progress_callbacks, last_notify, bus>>

\* the last strong reference to a callback is dropped: the callback is
\* collected and the weak references to it are dead.  A download() call in
\* flight refers to its progress_callback argument.
Collect(s) ==
    /\ Alive(referents, s)
    /\ \A c \in Calls : co[c].progress_callback # s
    /\ referents' = [referents EXCEPT ![s] = "dead"]
    /\ UNCHANGED <<max_concurrent, semaphore, downloads, tasks, co, dir, data,
                   progress_callbacks, last_notify, bus>>

\* The manager with progress subscribers and one download() call into an
\* empty download directory.
DownloadAlone(c, u, ck, r, cb) ==
    /\ c = 1
    /\ DownloadAs(c, u, ck, "sha256", r, cb)

NextNotify ==
    \/ \E c \in Calls, u \in Urls, r \in BOOLEAN :
          \E ck \in ChecksumArgs(u), cb \in {0} \cup Subs :
             DownloadAlone(c, u, ck, r, cb)
    \/ \E c \in Calls : \E r \in Answers(tasks[c].url, co[c].range) : Response(c, r)
    \/ \E c \in Calls : Open(c)
    \/ \E c \in Calls : Chunk(c)
    \/ \E c \in Calls : EndOfBody(c)
    \/ \E c \in Calls : Finish(c)
    \/ \E c \in Calls : Fault(c)
    \/ \E c \in Calls : TaskCancel(c)
    \/ \E i \in Ids : PauseDownload(i)
    \/ \E i \in Ids : CancelDownload(i)
    \/ \E s \in Subs, kind \in {"ok", "raises"} : AddProgressCallback(s, kind)
    \/ \E s \in Subs : RemoveProgressCallback(s)
    \/ \E s \in Subs, kind \in {"ok", "raises"} : NewCallback(s, kind)
    \/ \E s \in Subs : Collect(s)

SpecNotify == Init /\ [][NextNotify]_vars

\* The manager with one subscriber, whose callback returns and which is
\* subscribed before the first download, used by a caller that awaits each
\* download() before it makes the next one: the second call can find the
\* destination the first one has left.
Subscribe(s) ==
    /\ s = 1
    /\ \A c \in Calls : co[c].pc = "idle"
    /\ AddProgressCallback(s, "ok")

NextPublish ==
    \/ \E c \in Calls, u \in Urls, r \in BOOLEAN :
          \E ck \in ChecksumArgs(u) : DownloadSeq(c, u, ck, r)
    \/ \E c \in Calls : VerifiedDest(c)
    \/ \E c \in Calls : \E r \in Answers(tasks[c].url, co[c].range) : Response(c, r)
    \/ \E c \in Calls : Open(c)
    \/ \E c \in Calls : Chunk(c)
    \/ \E c \in Calls : EndOfBody(c)
    \/ \E c \in Calls : Finish(c)
    \/ \E c \in Calls : Fault(c)
    \/ \E c \in Calls : TaskCancel(c)
    \/ \E i \in Ids : PauseDownload(i)
    \/ \E i \in Ids : CancelDownload(i)
    \/ \E s \in Subs : Subscribe(s)

SpecPublish == Init /\ [][NextPublish]_vars

\* The manager with subscribers whose callbacks may not return, and one
\* download() call.  _notify_progress runs on the thread of the event loop:
\* while a callback is executing nothing else of the manager runs.
Blocked == \E s \in Subs : referents[s] = "stalled"

SubscribeAny(s, kind) ==
    /\ ~Blocked
    /\ AddProgressCallback(s, kind)

NextStall ==
    \/ \E c \in Calls, u \in Urls, r \in BOOLEAN :
          \E ck \in ChecksumArgs(u) : DownloadAlone(c, u, ck, r, 0)
    \/ \E c \in Calls : \E r \in Answers(tasks[c].url, co[c].range) : Response(c, r)
    \/ \E c \in Calls : Open(c)
    \/ \E c \in Calls : Chunk(c)
    \/ \E c \in Calls : EndOfBody(c)
    \/ \E c \in Calls : Finish(c)
    \/ \E c \in Calls : Fault(c)
    \/ \E c \in Calls : TaskCancel(c)
    \/ \E s \in Subs, kind \in {"ok", "stalls"} : SubscribeAny(s, kind)

SpecStall == Init /\ [][NextStall]_vars

\* The manager under a fair event loop: a coroutine that can run is
\* eventually run, and every network operation eventually delivers, ends
\* the body or faults.  No call is cancelled from outside.
TransferStep(c) ==
    \/ VerifiedDest(c)
    \/ \E r \in Answers(tasks[c].url, co[c].range) : Response(c, r)
    \/ Open(c)
    \/ Chunk(c)
    \/ EndOfBody(c)
    \/ Finish(c)
    \/ Fault(c)

NextFair ==
    \/ \E c \in Calls, u \in Urls, r \in BOOLEAN :
          \E ck \in ChecksumArgs(u) : Download(c, u, ck, r)
    \/ \E c \in Calls : Acquire(c)
    \/ \E c \in Calls : TransferStep(c)

SpecFair ==
    /\ Init /\ [][NextFair]_vars
    /\ \A c \in Calls : WF_vars(Acquire(c)) /\ WF_vars(TransferStep(c))

\* ------------------------------------------------------------ verification
\* the checksum arguments for an algorithm, the digest also in upper case
ChecksumArgsCased(u, ct) ==
    {NoChecksum, HexDigest(ct, Body(u)), Upper(HexDigest(ct, Body(u))),
     HexDigest(ct, ErrorBody)}

\* another program removes the file a call is about to verify: the open at
\* line 386 fails
ExternalUnlink(p) ==
    /\ Exists(p)
    /\ \E c \in Calls :
          \/ co[c].pc = "verify_dest" /\ p = DestPath(tasks[c].url)
          \/ co[c].pc = "finish" /\ p = PartFile(DestPath(tasks[c].url))
    /\ dir' = [dir EXCEPT ![p] = 0]
    /\ data' = Reclaim(dir', data, co)
    /\ Quiet
    /\ UNCHANGED <<max_concurrent, semaphore, downloads, tasks, co>>

\* The manager used by a caller that awaits each download() before it makes
\* the next one and passes checksums of every supported algorithm, in
\* either letter case; no faults, no cancellation.
DownloadChecked(c, u, ck, ct, r) ==
    /\ \A d \in Calls : co[d].pc \notin Running
    /\ DownloadAs(c, u, ck, ct, r, 0)

NextVerify ==
    \/ \E c \in Calls, u \in Urls, r \in BOOLEAN, ct \in KnownAlgorithms :
          \E ck \in ChecksumArgsCased(u, ct) : DownloadChecked(c, u, ck, ct, r)
    \/ \E c \in Calls : VerifiedDest(c)
    \/ \E c \in Calls : \E r \in Answers(tasks[c].url, co[c].range) : Response(c, r)
    \/ \E c \in Calls : Open(c)
    \/ \E c \in Calls : Chunk(c)
    \/ \E c \in Calls : EndOfBody(c)
    \/ \E c \in Calls : Finish(c)
    \/ \E p \in Paths : ExternalUnlink(p)

SpecVerify == Init /\ [][NextVerify]_vars

NextUnknown ==
    \/ \E c \in Calls, u \in Urls, r \in BOOLEAN, ct \in UnknownAlgorithms :
          \E ck \in ChecksumArgsCased(u, ct) : DownloadUnchecked(c, u, ck, ct, r)
    \/ \E c \in Calls : VerifiedDest(c)
    \/ \E c \in Calls : \E r \in Answers(tasks[c].url, co[c].range) : Response(c, r)
    \/ \E c \in Calls : Open(c)
    \/ \E c \in Calls : Chunk(c)
    \/ \E c \in Calls : EndOfBody(c)
    \/ \E c \in Calls : Finish(c)
    \/ \E p \in Paths : ExternalUnlink(p)

SpecUnknown == Init /\ [][NextUnknown]_vars

\* ------------------------------------------------------------------ claims
Transferring == {"get", "open", "stream", "finish"}

\* a path as a reader sees it
File(p) ==
    [exists |-> dir[p] # 0, content |-> IF dir[p] # 0 THEN data[dir[p]] ELSE <<>>]
DiskUnchanged == \A p \in Paths : File(p)' = File(p)

Dest(c) == DestPath(tasks[c].url)
Part(c) == PartFile(DestPath(tasks[c].url))

\* call c takes a step that leaves the await it is suspended at
Leaves(c, pc) == co[c].pc = pc /\ co'[c].pc # pc

DownloadingTasks == {c \in Calls : tasks[c].status = DOWNLOADING}

\* C1: the number of tasks whose status is DOWNLOADING never exceeds
\* max_concurrent, whatever the interleaving of download(), pause, cancel and
\* clear_completed.
C1_ConcurrencyBound == Cardinality(DownloadingTasks) <= max_concurrent

\* the gate is full and a further call waits at it
C1_GateFull ==
    /\ Cardinality(DownloadingTasks) = max_concurrent
    /\ \E c \in Calls : co[c].pc = "acquire"

\* C2: at most one active task per identity: a download() call for an
\* identity that has an active task attaches to it, so no two calls for the
\* same identity ever run a transfer at the same time.
C2_OneActiveTaskPerIdentity ==
    \A c, d \in Calls :
        (c # d /\ co[c].pc \in Transferring /\ co[d].pc \in Transferring)
            => DownloadId(tasks[c].url) # DownloadId(tasks[d].url)

\* C3: when a checksum was supplied and the verification of the transferred
\* part file fails, the step of the call that ends the verification leaves
\* every file as it is (the destination neither created nor overwritten, the
\* part file kept with its content), and a call only ever changes the
\* destination when no checksum was supplied or the part file verified.
C3_FailedVerificationKeepsFiles ==
    [][\A c \in Calls :
        /\ (Leaves(c, "finish") /\ tasks[c].checksum # NoChecksum
               /\ ~VerifyChecksum(Part(c), tasks[c].checksum, tasks[c].checksum_type))
            => DiskUnchanged
        /\ (Leaves(c, "finish") /\ File(Dest(c))' # File(Dest(c)))
            => \/ tasks[c].checksum = NoChecksum
               \/ VerifyChecksum(Part(c), tasks[c].checksum, tasks[c].checksum_type)
      ]_vars

\* a call has failed its verification: the part file is there, no destination
C3_VerificationFailed ==
    \E c \in Calls :
        /\ co[c].pc = "raised" /\ tasks[c].error = "checksum"
        /\ Exists(Part(c)) /\ Content(Part(c)) = Body(tasks[c].url)
        /\ ~Exists(Dest(c))

\* C4: with resume allowed and a part file of K > 0 chunks, the request
\* carries a Range header starting at K; when the answer is partial content
\* every received chunk is appended to the part file, total_size is the total
\* the server reports, and the call completes with downloaded_size equal to
\* that total.
C4_ResumeFromPartFile ==
    [][\A c \in Calls :
        /\ (co[c].pc # "get" /\ co'[c].pc = "get" /\ co'[c].resume
               /\ Exists(Part(c)') /\ StatSize(Part(c)') > 0)
            => co'[c].range = StatSize(Part(c)')
        /\ (co'[c].pc \in {"open", "stream", "finish"} /\ co'[c].http = 206)
            => /\ co'[c].range > 0
               /\ tasks'[c].total_size = Len(Body(tasks'[c].url))
               /\ tasks'[c].downloaded_size + Len(co'[c].body) = tasks'[c].total_size
               /\ Exists(Part(c))' /\ StatSize(Part(c))' = tasks'[c].downloaded_size
        /\ (co[c].pc = "stream" /\ co'[c].pc = "stream" /\ co[c].http = 206
               /\ tasks'[c].downloaded_size # tasks[c].downloaded_size)
            => Content(Part(c))' = Append(Content(Part(c)), Head(co[c].body))
        /\ (co[c].pc = "finish" /\ co[c].http = 206 /\ co'[c].pc = "returned")
            => /\ tasks'[c].status = COMPLETED
               /\ tasks'[c].downloaded_size = tasks'[c].total_size
               /\ File(Dest(c))' = [exists |-> TRUE, content |-> Content(Part(c))]
      ]_vars

\* a resumed call has completed: its registry entry shows the full size
C4_Resumed ==
    \E c \in Calls :
        /\ co[c].pc = "finish" /\ co[c].http = 206 /\ co[c].range > 0
        /\ tasks[c].downloaded_size = ResourceLen
        /\ Content(Part(c)) = Body(tasks[c].url)

\* C5: when a request with a Range header (non-empty part file) is answered
\* with the full content (status 200), the prior part file is discarded,
\* downloaded_size restarts at zero, the body is written from byte zero, and
\* the call completes with the destination equal to the full body.
C5_RestartFromZero ==
    [][\A c \in Calls :
        /\ (co[c].pc = "get" /\ co[c].range > 0 /\ co'[c].pc = "open"
               /\ co'[c].http = 200)
            => /\ tasks'[c].downloaded_size = 0
               /\ ~Exists(Part(c))'
        /\ (co'[c].pc \in {"stream", "finish"} /\ co'[c].range > 0
               /\ co'[c].http = 200)
            => /\ Exists(Part(c))'
               /\ Content(Part(c))' =
                     SubSeq(Body(tasks'[c].url), 1, tasks'[c].downloaded_size)
               /\ co'[c].pc = "finish" => Content(Part(c))' = Body(tasks'[c].url)
        /\ (Leaves(c, "finish") /\ co[c].range > 0 /\ co[c].http = 200
               /\ co'[c].pc # "cancelled"
               /\ tasks[c].checksum \in {NoChecksum, HexDigest("sha256", Body(tasks[c].url))})
            => /\ co'[c].pc = "returned"
               /\ tasks'[c].status = COMPLETED
               /\ File(Dest(c))' = [exists |-> TRUE, content |-> Body(tasks[c].url)]
      ]_vars

\* a call whose Range request was answered with the full content has
\* streamed the whole body
C5_FellBack ==
    \E c \in Calls :
        /\ co[c].pc = "finish" /\ co[c].http = 200 /\ co[c].range > 0
        /\ tasks[c].downloaded_size = ResourceLen

\* C6: a download() call that finds the destination file present, without a
\* checksum or with a checksum the file matches, returns it with the task
\* COMPLETED, having sent no request and changed no file; so does every
\* later call.
C6_ExistingDestinationShortCircuit ==
    [][\A c \in Calls :
        /\ (co[c].pc \in {"idle", "acquire"} /\ co'[c].pc \notin {"idle", "acquire", "cancelled"}
               /\ Exists(Dest(c)') /\ tasks'[c].checksum = NoChecksum)
            => /\ co'[c].pc = "returned" /\ tasks'[c].status = COMPLETED
               /\ co'[c].reqs = 0 /\ DiskUnchanged
        /\ (Leaves(c, "verify_dest") /\ co'[c].pc # "cancelled"
               /\ VerifyChecksum(Dest(c), tasks[c].checksum, tasks[c].checksum_type))
            => /\ co'[c].pc = "returned" /\ tasks'[c].status = COMPLETED
               /\ co'[c].reqs = 0 /\ DiskUnchanged
      ]_vars

\* a call has returned an existing destination without a request
C6_ShortCircuited ==
    \E c \in Calls :
        /\ co[c].pc = "returned" /\ co[c].reqs = 0
        /\ tasks[c].status = COMPLETED /\ Exists(Dest(c))

\* C7: a network or I/O fault increments the retry counter and the task is
\* retried; it becomes FAILED only once the counter has reached max_retries.
C7_FaultsAreRetried ==
    \A c \in Calls :
        (co[c].pc = "raised" /\ tasks[c].error = "fault")
            => tasks[c].retry_count >= max_retries

\* C8: when the streamed body fails the verification, the task becomes
\* FAILED with the checksum error, download() raises, and the call sends no
\* further request.
C8_ChecksumMismatchNotRetried ==
    [][\A c \in Calls :
        /\ (Leaves(c, "finish") /\ co'[c].pc # "cancelled"
               /\ tasks[c].checksum # NoChecksum
               /\ ~VerifyChecksum(Part(c), tasks[c].checksum, tasks[c].checksum_type))
            => /\ tasks'[c].status = FAILED /\ tasks'[c].error = "checksum"
               /\ co'[c].pc = "raised" /\ co'[c].reqs = co[c].reqs
        /\ co[c].pc = "raised" => (co'[c].pc = "raised" /\ co'[c].reqs = co[c].reqs)
      ]_vars

\* a call has raised the checksum error after its one request
C8_Mismatch ==
    \E c \in Calls :
        /\ co[c].pc = "raised" /\ tasks[c].error = "checksum"
        /\ tasks[c].status = FAILED /\ co[c].reqs = 1

\* C9: a task on which cancel_download() is called while it streams sees
\* the cancellation between chunks: it writes at most one further chunk, and
\* it does not go on to verify and move the part file.
C9_CancelStopsStreaming ==
    \A c \in Calls :
        co[c].cancel_at >= 0
            => /\ tasks[c].downloaded_size <= co[c].cancel_at + 1
               /\ co[c].pc = "stream"

\* C10: COMPLETED, FAILED and CANCELLED are absorbing: no operation changes
\* the status of a task that has one of them.
C10_TerminalAbsorbing ==
    [][\A c \in Calls :
        tasks[c].status \in Terminal => tasks'[c].status = tasks[c].status
      ]_vars

\* C11: every status change of a task is PENDING -> DOWNLOADING,
\* DOWNLOADING -> COMPLETED, FAILED, CANCELLED or PAUSED, PAUSED -> DOWNLOADING
\* or PENDING -> COMPLETED; PAUSED is entered only from DOWNLOADING.
C11_StatusTransitions ==
    [][\A c \in Calls :
        (co[c].pc # "idle" /\ tasks'[c].status # tasks[c].status)
            => <<tasks[c].status, tasks'[c].status>> \in
                  {<<PENDING, DOWNLOADING>>, <<DOWNLOADING, COMPLETED>>,
                   <<DOWNLOADING, FAILED>>, <<DOWNLOADING, CANCELLED>>,
                   <<DOWNLOADING, PAUSED>>, <<PAUSED, DOWNLOADING>>,
                   <<PENDING, COMPLETED>>}
      ]_vars

\* C12: a download() call holds a slot exactly while it is between the
\* acquisition and its exit, whichever way it leaves (return, exception,
\* cancellation): the free slots are max_concurrent less the calls inside,
\* so once every call has returned or raised all max_concurrent are free.
C12_SlotsReleased ==
    /\ semaphore = max_concurrent
          - Cardinality({c \in Calls :
                co[c].pc \in {"verify_dest", "get", "open", "stream", "finish"}})
    /\ (\A c \in Calls : co[c].pc \in {"idle", "returned", "raised", "cancelled"})
            => semaphore = max_concurrent

\* every call has left download(): one raised, one was cancelled in the
\* transfer
C12_AllLeft ==
    /\ \E c \in Calls : co[c].pc = "raised"
    /\ \E c \in Calls : co[c].pc = "cancelled" /\ tasks[c].status = CANCELLED
    /\ semaphore = max_concurrent

\* C13: a task that pause_download() has moved to PAUSED holds no slot: the
\* free slots are max_concurrent less the calls inside download() whose task
\* is not PAUSED, so a call waiting at the gate can start.
C13_PauseReleasesSlot ==
    semaphore = max_concurrent
        - Cardinality({c \in Calls :
              /\ co[c].pc \in {"verify_dest", "get", "open", "stream", "finish"}
              /\ tasks[c].status # PAUSED})

\* C14: a clear_completed() call that removes anything removes exactly the
\* registry entries whose task is COMPLETED, FAILED or CANCELLED; the entries
\* of PENDING, DOWNLOADING and PAUSED tasks stay as they are, and no task,
\* no download() call in flight, no slot and no file is changed by it.
C14_ClearCompletedFrame ==
    [][(\E i \in Ids : downloads[i] # 0 /\ downloads'[i] = 0)
        => /\ \A i \in Ids :
                 downloads'[i] =
                    IF downloads[i] # 0
                          /\ tasks[downloads[i]].status \in {COMPLETED, FAILED, CANCELLED}
                    THEN 0 ELSE downloads[i]
           /\ tasks' = tasks /\ co' = co /\ semaphore' = semaphore
           /\ DiskUnchanged
      ]_vars

\* the entry of a finished call has been cleared while the entry of a paused
\* task, whose call is still in its transfer, is in the registry
C14_Cleared ==
    \E c, d \in Calls :
        /\ tasks[c].status \in {COMPLETED, FAILED, CANCELLED}
        /\ tasks[d].status = PAUSED /\ co[d].pc \in Transferring
        /\ downloads[DownloadId(tasks[c].url)] = 0
        /\ downloads[DownloadId(tasks[d].url)] = d

\* C15: a call whose request was answered with a non-success status (404,
\* 416) ends by raising with its task FAILED, and the step that ends it
\* leaves the destination as it was: the body of the error response is not
\* finalized.
C15_ErrorStatusFails ==
    [][\A c \in Calls :
        (Leaves(c, "finish") /\ co[c].http \notin {200, 206} /\ co'[c].pc # "cancelled")
            => /\ co'[c].pc = "raised" /\ tasks'[c].status = FAILED
               /\ File(Dest(c))' = File(Dest(c))
      ]_vars

\* C16 (as stated): the only step of a download() call after which its part
\* file is gone is the rename onto the destination of the call that
\* completes.
C16_PartFileOnlyRenamed ==
    [][\A c \in Calls :
        (co'[c] # co[c] /\ co[c].pc # "idle" /\ Exists(Part(c)) /\ ~Exists(Part(c))')
            => /\ co'[c].pc = "returned" /\ tasks'[c].status = COMPLETED
               /\ dir'[Dest(c)] = dir[Part(c)]
      ]_vars

\* C16 (amended): a download() call removes its part file only by the
\* rename onto the destination when it completes, or by the unlink of the
\* restart-from-zero fallback (a Range request not answered with 206); the
\* step that ends a call FAILED or CANCELLED changes no file.
C16_PartFileRenamedOrDiscarded ==
    [][\A c \in Calls :
        /\ (co'[c] # co[c] /\ co[c].pc # "idle" /\ Exists(Part(c)) /\ ~Exists(Part(c))')
            => \/ /\ co'[c].pc = "returned" /\ tasks'[c].status = COMPLETED
                  /\ dir'[Dest(c)] = dir[Part(c)]
               \/ /\ co[c].pc = "get" /\ co'[c].pc = "open"
                  /\ co[c].range > 0 /\ co'[c].http # 206
        /\ (co[c].pc \in Running /\ co'[c].pc \in {"raised", "cancelled"})
            => DiskUnchanged
      ]_vars

\* a call whose Range request was answered with the full content has
\* unlinked the part file of an earlier, cancelled or failed, call and has
\* not reopened it yet
C16_Discarded ==
    \E c \in Calls :
        /\ co[c].pc = "open" /\ co[c].range > 0 /\ co[c].http = 200
        /\ ~Exists(Part(c))
        /\ \E d \in Calls : d # c /\ co[d].pc \in {"raised", "cancelled"}
                              /\ tasks[d].url = tasks[c].url

C18_DownloadedNeverDecreases ==
    [][\A c \in Calls :
        co[c].pc # "idle" => tasks'[c].downloaded_size >= tasks[c].downloaded_size
      ]_vars

\* C18 (amended): the only step that lowers the downloaded_size of a task is
\* the restart-from-zero fallback (a Range request not answered with 206),
\* which sets it to 0; a call allowed to resume a non-empty part file starts
\* with downloaded_size equal to the size of that file, and keeps it when
\* the answer is 206.
C18_DecreasesOnlyOnFallback ==
    [][\A c \in Calls :
        /\ (co[c].pc # "idle" /\ tasks'[c].downloaded_size < tasks[c].downloaded_size)
            => /\ co[c].pc = "get" /\ co'[c].pc = "open"
               /\ co[c].range > 0 /\ co'[c].http # 206
               /\ tasks'[c].downloaded_size = 0
        /\ (co[c].pc # "get" /\ co'[c].pc = "get" /\ co'[c].resume /\ Exists(Part(c)'))
            => tasks'[c].downloaded_size = StatSize(Part(c)')
        /\ (co[c].pc = "get" /\ co'[c].pc = "open" /\ co'[c].http = 206)
            => /\ tasks'[c].downloaded_size = co[c].existing_size
               /\ co[c].existing_size > 0
      ]_vars

\* a resumed attempt streams: its downloaded_size began at the size of the
\* part file and has grown by the chunk received
C18_ResumedStreaming ==
    \E c \in Calls :
        /\ co[c].pc = "stream" /\ co[c].http = 206
        /\ co[c].existing_size > 0 /\ co[c].body = <<>>
        /\ tasks[c].downloaded_size > co[c].existing_size

\* a step of call c's task that publishes its progress: the status changes,
\* other than by the silent return of an existing destination (279-281)
Publishes(c) ==
    /\ tasks'[c].status # tasks[c].status
    /\ \/ tasks'[c].status \in {DOWNLOADING, PAUSED, CANCELLED, FAILED}
       \/ tasks'[c].status = COMPLETED /\ co[c].pc \in {"verify_dest", "finish"}

\* C19: a publish removes from the subscriber set every reference whose
\* callback is gone, without a call, and keeps and calls every reference
\* whose callback is still there.
C19_DeadSubscribersPruned ==
    [][\A c \in Calls : Publishes(c) =>
        \A s \in progress_callbacks :
            IF Alive(referents, s)
            THEN s \in progress_callbacks' /\ last_notify'.invoked[s] >= 1
            ELSE s \notin progress_callbacks' /\ last_notify'.invoked[s] = 0
      ]_vars

\* the last publish has pruned the reference to a collected callback and has
\* called a subscriber that is still registered
C19_Pruned ==
    /\ last_notify.pruned # {}
    /\ \A s \in last_notify.pruned :
          /\ referents[s] = "dead" /\ s \notin progress_callbacks
          /\ last_notify.invoked[s] = 0
    /\ \E s \in progress_callbacks : last_notify.invoked[s] = 1

\* C20: in a publish with a subscriber whose callback raises, every live
\* subscriber is called exactly once and no one else is called; the step is
\* the one the operation takes anyway: the call is not ended by the
\* callback's exception and the task's error is not set by it.
C20_CallbackErrorsIsolated ==
    [][\A c \in Calls :
        (Publishes(c) /\ \E s \in progress_callbacks : referents[s] = "raises")
            => /\ \A s \in Subs :
                     last_notify'.invoked[s] =
                        IF s \in progress_callbacks /\ Alive(referents, s) THEN 1 ELSE 0
               /\ tasks'[c].status # FAILED
                     => /\ co'[c].pc = "raised" => co[c].pc = "raised"
                        /\ tasks'[c].error = tasks[c].error
               /\ tasks'[c].status = FAILED
                     => tasks'[c].error \in {"fault", "checksum", "io"}
               /\ tasks'[c].status = DOWNLOADING => co'[c].pc = "get"
      ]_vars

\* the last publish has called a subscriber that raises and one that does
\* not, once each, and the transfer goes on
C20_RaisedAndDelivered ==
    \E s, t \in progress_callbacks :
        /\ referents[s] = "raises" /\ referents[t] = "ok"
        /\ last_notify.invoked[s] = 1 /\ last_notify.invoked[t] = 1
        /\ \E c \in Calls : tasks[c].status = DOWNLOADING /\ co[c].pc = "stream"
                            /\ tasks[c].error = ""

\* C21: a download() call that returns does so with its task COMPLETED and
\* the destination file there; a call that ends any other way raises with
\* its task FAILED or CANCELLED.
C21_ReturnsOnlyCompleted ==
    [][\A c \in Calls :
        /\ (co[c].pc # "returned" /\ co'[c].pc = "returned")
            => tasks'[c].status = COMPLETED /\ Exists(Dest(c))'
        /\ (co[c].pc \in Running /\ co'[c].pc \in {"raised", "cancelled"})
            => tasks'[c].status \in {FAILED, CANCELLED}
      ]_vars

\* C23: every publish of the progress of a download() call that was given a
\* progress_callback calls that callback.
C23_TaskCallbackInvoked ==
    [][\A c \in Calls : \A s \in Subs :
        (Publishes(c) /\ s \in {co[c].progress_callback, co'[c].progress_callback})
            => last_notify'.invoked[s] >= 1
      ]_vars

\* C22: verification answers and never raises.  With a supported algorithm
\* an existing destination is accepted exactly when it can be read and its
\* digest is the expected string up to letter case, otherwise the call goes
\* on to transfer; a transferred part file is moved exactly in that case,
\* otherwise the call raises the checksum error of _download_file.
C22_VerifyNeverRaises ==
    [][\A c \in Calls :
        LET ck == tasks[c].checksum
            Matches(path) ==
                /\ Exists(path)
                /\ <<ck[1], ck[2]>> = <<tasks[c].checksum_type, Content(path)>>
        IN
        /\ Leaves(c, "verify_dest")
            => IF Matches(Dest(c))
               THEN co'[c].pc = "returned" /\ tasks'[c].status = COMPLETED
               ELSE co'[c].pc = "get" /\ tasks'[c].error = ""
        /\ (Leaves(c, "finish") /\ ck # NoChecksum)
            => IF Matches(Part(c))
               THEN co'[c].pc = "returned" /\ tasks'[c].status = COMPLETED
               ELSE co'[c].pc = "raised" /\ tasks'[c].error = "checksum"
      ]_vars

\* a file has been accepted on a digest written in upper case, and a part
\* file that was removed before it could be read has been rejected
C22_Verified ==
    /\ \E c \in Calls :
          /\ co[c].pc = "returned" /\ tasks[c].status = COMPLETED
          /\ Len(tasks[c].checksum) = 3
    /\ \E c \in Calls :
          /\ co[c].pc = "raised" /\ tasks[c].error = "checksum"
          /\ tasks[c].checksum = HexDigest(tasks[c].checksum_type, Body(tasks[c].url))
          /\ tasks[c].downloaded_size = ResourceLen

\* C24: two download() calls for one URL never have the part file open for
\* writing at the same time.
C24_PartFileOneWriter ==
    \A c, d \in Calls :
        (c # d /\ co[c].pc = "stream" /\ co[d].pc = "stream")
            => tasks[c].url # tasks[d].url

\* C25: for a transfer that is the only one on its part file, the open
\* leaves the part file with the content the attempt starts from (what was
\* there when the resume was honoured, nothing otherwise), and every chunk
\* write appends the chunk received to the part file, after which
\* downloaded_size is the size of the part file.
C25_PartFileTracksProgress ==
    [][\A c \in Calls :
        /\ (co[c].pc = "open" /\ co'[c].pc = "stream")
            => /\ Exists(Part(c))'
               /\ Content(Part(c))' =
                     IF co[c].http = 206 THEN Content(Part(c)) ELSE <<>>
               /\ StatSize(Part(c))' = tasks'[c].downloaded_size
        /\ (co[c].pc = "stream" /\ co'[c].pc = "stream" /\ co'[c].body # co[c].body)
            => /\ Content(Part(c))' = Append(Content(Part(c)), Head(co[c].body))
               /\ tasks'[c].downloaded_size = StatSize(Part(c))'
        /\ co'[c].pc = "stream"
            => /\ Exists(Part(c))'
               /\ tasks'[c].downloaded_size = StatSize(Part(c))'
      ]_vars

\* a call with resume disabled has written the whole body over the part file
\* an earlier call left behind
C25_Overwritten ==
    \E c, d \in Calls :
        /\ c # d /\ tasks[c].url = tasks[d].url
        /\ co[d].pc \in {"raised", "cancelled"} /\ tasks[d].downloaded_size > 0
        /\ co[c].pc = "stream" /\ ~co[c].resume /\ co[c].http = 200
        /\ co[c].body = <<>>
        /\ Content(Part(c)) = Body(tasks[c].url)

\* C26: the step that makes a task COMPLETED at the end of a transfer puts
\* the part file, with the content it had, at the destination and leaves no
\* part file; a task still in its transfer is never COMPLETED, and when the
\* part file cannot be moved the call raises with the task FAILED.
C26_CompletedAfterRename ==
    [][\A c \in Calls :
        /\ (Leaves(c, "finish") /\ tasks'[c].status = COMPLETED)
            => /\ Exists(Part(c))
               /\ File(Dest(c))' = [exists |-> TRUE, content |-> Content(Part(c))]
               /\ ~Exists(Part(c))'
               /\ co'[c].pc = "returned"
        /\ (Leaves(c, "finish") /\ ~Exists(Part(c)) /\ co'[c].pc # "cancelled")
            => /\ co'[c].pc = "raised" /\ tasks'[c].status = FAILED
               /\ ~Exists(Part(c))' /\ File(Dest(c))' = File(Dest(c))
        /\ co'[c].pc \in Transferring => tasks'[c].status # COMPLETED
      ]_vars

\* a transfer has completed: the body is at the destination, no part file
C26_Finalized ==
    \E c \in Calls :
        /\ co[c].pc = "returned" /\ co[c].reqs = 1 /\ tasks[c].status = COMPLETED
        /\ Exists(Dest(c)) /\ Content(Dest(c)) = Body(tasks[c].url)
        /\ ~Exists(Part(c))

\* get_progress(id) (416-419) returns the progress of the registered task,
\* None without an entry
HasProgress(id) == downloads[id] # 0
GetProgress(id) == tasks[downloads[id]]

\* C27: a step that makes a task FAILED or CANCELLED leaves its
\* downloaded_size and total_size as they are; and from then on, as long as
\* no new download() is made, get_progress of that task returns the same
\* sizes, until clear_completed() removes the entry.
C27_SnapshotKept ==
    [][\A c \in Calls :
        /\ (tasks'[c].status \in {FAILED, CANCELLED}
               /\ tasks[c].status \notin {FAILED, CANCELLED, "none"})
            => /\ tasks'[c].downloaded_size = tasks[c].downloaded_size
               /\ tasks'[c].total_size = tasks[c].total_size
        /\ (/\ tasks[c].status \in {FAILED, CANCELLED}
            /\ downloads[DownloadId(tasks[c].url)] = c
            /\ \A d \in Calls : co[d].pc = "idle" => co'[d].pc = "idle")
            => \/ /\ HasProgress(DownloadId(tasks[c].url))'
                  /\ downloads'[DownloadId(tasks[c].url)] = c
                  /\ GetProgress(DownloadId(tasks[c].url))'.downloaded_size
                        = tasks[c].downloaded_size
                  /\ GetProgress(DownloadId(tasks[c].url))'.total_size
                        = tasks[c].total_size
               \/ /\ ~HasProgress(DownloadId(tasks[c].url))'
                  /\ UNCHANGED <<semaphore, tasks, co, dir, data>>
      ]_vars

\* C28: a task whose status is FAILED or CANCELLED has a non-empty error.
C28_TerminalHasError ==
    \A c \in Calls :
        tasks[c].status \in {FAILED, CANCELLED} => tasks[c].error # ""

\* C29: with a live subscriber, every step of a call that changes its task's
\* status to DOWNLOADING, PAUSED, COMPLETED, FAILED or CANCELLED, the return
\* for an existing destination included, hands the subscribers the progress of
\* that task with the new status.
C29_StatusChangePublished ==
    [][\A c \in Calls :
        (/\ tasks'[c].status # tasks[c].status
         /\ tasks'[c].status \in {DOWNLOADING, PAUSED, COMPLETED, FAILED, CANCELLED}
         /\ \E s \in progress_callbacks : Alive(referents, s))
        => /\ last_notify'.task = c
           /\ last_notify'.status = tasks'[c].status
           /\ \A s \in progress_callbacks :
                 Alive(referents, s) => last_notify'.invoked[s] >= 1
      ]_vars

\* the steps by which the transfer of call c goes on
Proceeds(c) ==
    \/ \E r \in Answers(tasks[c].url, co[c].range) : Response(c, r)
    \/ Open(c)
    \/ Chunk(c)
    \/ EndOfBody(c)
    \/ Finish(c)

\* C30: a transfer in progress can always take its next step (receive the
\* response, open the part file, write a chunk, finish), whatever the
\* subscribed callbacks do: a publish never holds it.
C30_TransferNotStalled ==
    \A c \in Calls :
        (co[c].pc \in Transferring \cup {"publish"} /\ tasks[c].status = DOWNLOADING)
            => ENABLED Proceeds(c)

\* C31: the request of a call carries a Range header exactly when resume is
\* allowed and the part file holds S > 0 chunks, and then it starts at S;
\* without the header downloaded_size is 0 at the request, the open
\* truncates the part file, and every chunk is written at the end of what
\* the call has written so far.
C31_RangeHeaderIffResumable ==
    [][\A c \in Calls :
        /\ (co[c].pc # "get" /\ co'[c].pc = "get")
            => LET S == IF Exists(Part(c)') THEN StatSize(Part(c)') ELSE 0 IN
               /\ co'[c].range = IF co'[c].resume /\ S > 0 THEN S ELSE 0
               /\ co'[c].range = 0 => tasks'[c].downloaded_size = 0
        /\ (Leaves(c, "open") /\ co[c].range = 0 /\ co'[c].pc = "stream")
            => /\ Exists(Part(c))' /\ Content(Part(c))' = <<>>
               /\ tasks'[c].downloaded_size = 0
        /\ (co[c].pc = "stream" /\ co'[c].pc = "stream" /\ co[c].range = 0
               /\ tasks'[c].downloaded_size # tasks[c].downloaded_size)
            => /\ Len(Content(Part(c))) = tasks[c].downloaded_size
               /\ Content(Part(c))' = Append(Content(Part(c)), Head(co[c].body))
      ]_vars

\* a call that may not resume has truncated the part file an earlier call
\* for the URL had left with content
C31_Truncated ==
    \E c, d \in Calls :
        /\ co[c].pc = "stream" /\ ~co[c].resume /\ co[c].range = 0
        /\ Exists(Part(c)) /\ Content(Part(c)) = <<>>
        /\ d # c /\ co[d].pc \in {"raised", "cancelled"}
        /\ tasks[d].url = tasks[c].url /\ tasks[d].downloaded_size > 0

\* C32: a call that finds the destination not matching the supplied digest
\* does not return it: it sends a request, its task DOWNLOADING, with every
\* file as it was; and a call with a digest replaces the destination only by
\* a part file that passes the verification, while a failed verification
\* leaves the destination as it was and the task FAILED.
C32_MismatchingDestinationReplaced ==
    [][\A c \in Calls :
        /\ (Leaves(c, "verify_dest") /\ co'[c].pc # "cancelled"
               /\ ~VerifyChecksum(Dest(c), tasks[c].checksum, tasks[c].checksum_type))
            => /\ co'[c].pc = "get" /\ co'[c].reqs = co[c].reqs + 1
               /\ tasks'[c].status = DOWNLOADING
               /\ DiskUnchanged
        /\ (co[c].pc \in Transferring /\ tasks[c].checksum # NoChecksum
               /\ co'[c] # co[c] /\ File(Dest(c))' # File(Dest(c)))
            => /\ co[c].pc = "finish" /\ co'[c].pc = "returned"
               /\ VerifyChecksum(Part(c), tasks[c].checksum, tasks[c].checksum_type)
               /\ File(Dest(c))' = [exists |-> TRUE, content |-> Content(Part(c))]
        /\ (Leaves(c, "finish") /\ co'[c].pc # "cancelled"
               /\ tasks[c].checksum # NoChecksum
               /\ ~VerifyChecksum(Part(c), tasks[c].checksum, tasks[c].checksum_type))
            => /\ File(Dest(c))' = File(Dest(c))
               /\ co'[c].pc = "raised" /\ tasks'[c].status = FAILED
      ]_vars

\* a call with a digest has transferred a part file that matches it, while
\* the destination that is there does not
C32_AboutToReplace ==
    \E c \in Calls :
        /\ co[c].pc = "finish" /\ tasks[c].checksum # NoChecksum
        /\ Exists(Dest(c))
        /\ ~VerifyChecksum(Dest(c), tasks[c].checksum, tasks[c].checksum_type)
        /\ VerifyChecksum(Part(c), tasks[c].checksum, tasks[c].checksum_type)

\* C33: while a download() call waits at the gate, get_progress of its
\* identity returns its task with status PENDING, and the call has sent no
\* request and has no part file open.
C33_PendingWhileWaiting ==
    \A c \in Calls :
        co[c].pc = "acquire"
            => /\ HasProgress(DownloadId(tasks[c].url))
               /\ downloads[DownloadId(tasks[c].url)] = c
               /\ GetProgress(DownloadId(tasks[c].url)).status = PENDING
               /\ co[c].reqs = 0 /\ co[c].ino = 0

C35_SlotHolderEndsTerminal ==
    [][\A c \in Calls :
        (co[c].pc \in {"verify_dest", "get", "open", "stream", "finish"}
            /\ co'[c].pc \notin {"verify_dest", "get", "open", "stream", "finish"})
        => /\ co'[c].pc \in {"returned", "raised", "cancelled"}
           /\ tasks'[c].status \in {COMPLETED, FAILED, CANCELLED}
      ]_vars

\* C36: remove_progress_callback(cb) takes cb out of the subscriber set and
\* leaves every other live subscriber in it; a callback that is not in the
\* set is called by no publish, every live one in the set is; and a callback
\* comes into the set only by add_progress_callback, never by a publish.
C36_RemovedNotInvoked ==
    [][/\ \A s \in Subs :
            (s \in progress_callbacks /\ Alive(referents, s)
                /\ s \notin progress_callbacks')
            => /\ \A t \in Subs \ {s} :
                     Alive(referents, t)
                        => (t \in progress_callbacks' <=> t \in progress_callbacks)
               /\ UNCHANGED <<tasks, co, referents, last_notify>>
       /\ \A c \in Calls : Publishes(c) =>
            \A s \in Subs :
                /\ s \notin progress_callbacks => last_notify'.invoked[s] = 0
                /\ (s \in progress_callbacks /\ Alive(referents, s))
                      => last_notify'.invoked[s] >= 1
       /\ \A s \in Subs :
            (s \notin progress_callbacks /\ s \in progress_callbacks')
            => UNCHANGED <<tasks, co, last_notify>>
      ]_vars

\* a callback the last publish called has been removed since, and is still
\* alive; another subscriber is still registered
C36_Removed ==
    \E s, t \in Subs :
        /\ s # t
        /\ Alive(referents, s) /\ s \notin progress_callbacks
        /\ last_notify.invoked[s] = 1
        /\ Alive(referents, t) /\ t \in progress_callbacks
        /\ last_notify.invoked[t] = 1

\* C37: with a digest and an algorithm name other than md5, sha1 and sha256
\* the verification succeeds without the file being read: a call that has
\* received its body and whose part file is there moves it to the
\* destination and returns with the task COMPLETED, whatever the digest and
\* the content are; when the part file is gone the call fails at the move,
\* not at the verification.
C37_UnknownAlgorithmAccepts ==
    [][\A c \in Calls :
        (Leaves(c, "finish") /\ tasks[c].checksum # NoChecksum
            /\ tasks[c].checksum_type \notin {"md5", "sha1", "sha256"})
        => IF Exists(Part(c))
           THEN /\ co'[c].pc = "returned" /\ tasks'[c].status = COMPLETED
                /\ File(Dest(c))' = [exists |-> TRUE, content |-> Content(Part(c))]
                /\ ~Exists(Part(c))'
           ELSE /\ co'[c].pc = "raised" /\ tasks'[c].status = FAILED
                /\ tasks'[c].error = "io"
      ]_vars

\* a call has completed with a crc32 digest of something that is not what
\* it has transferred
C37_AcceptedUnverified ==
    \E c \in Calls :
        /\ co[c].pc = "returned" /\ tasks[c].status = COMPLETED /\ co[c].reqs = 1
        /\ tasks[c].checksum_type = "crc32"
        /\ tasks[c].checksum = HexDigest("crc32", ErrorBody)
        /\ Exists(Dest(c)) /\ Content(Dest(c)) = Body(tasks[c].url)

\* ------------------------------------------------------- EventBus: handlers
\* A handler is a function the caller passes to on() or on_all(): coroutine
\* is what asyncio.iscoroutinefunction answers for it (118, 165) and raises
\* says that its body raises an Exception on every call.
HandlerFns == [id : Handlers, coroutine : BOOLEAN, raises : BOOLEAN]

\* the handlers of a list of (priority, handler) pairs
Registered(listeners) == {listeners[i].handler.id : i \in DOMAIN listeners}

\* every handler the bus holds, in any list
Known(b) ==
    UNION {Registered(b.sync_listeners[t]) : t \in EventTypes}
    \cup UNION {Registered(b.async_listeners[t]) : t \in EventTypes}
    \cup {b.wildcard_listeners[i].id : i \in DOMAIN b.wildcard_listeners}

\* the history covers the last emit() against the present listeners: a
\* change of the listeners starts it afresh
Forgotten(b) == [b EXCEPT !.event = "", !.trace = <<>>]

\* the place of entry e in a list sorted by descending priority: behind
\* every entry whose priority is at least its own
InsertByPriority(sorted, e) ==
    LET before == {i \in DOMAIN sorted : sorted[i].priority >= e.priority}
        n == Cardinality(before)
    IN  SubSeq(sorted, 1, n) \o <<e>> \o SubSeq(sorted, n + 1, Len(sorted))

\* line 124: listeners.sort(key=lambda x: x[0], reverse=True); list.sort is
\* stable, also with reverse=True: entries of equal priority keep their order
RECURSIVE SortByPriority(_)
SortByPriority(listeners) ==
    IF listeners = <<>> THEN <<>>
    ELSE InsertByPriority(SortByPriority(SubSeq(listeners, 1, Len(listeners) - 1)),
                          listeners[Len(listeners)])

\* lines 109-126: on(event_type, handler, priority)
On(event_type, handler, priority) ==
    /\ ~bus.emitting
    /\ handler.id \notin Known(bus)
    /\ \A i \in Handlers : i < handler.id => i \in Known(bus)
    /\ bus' = IF handler.coroutine
              THEN [Forgotten(bus) EXCEPT !.async_listeners[event_type] =
                        SortByPriority(Append(@, [priority |-> priority,
                                                  handler |-> handler]))]
              ELSE [Forgotten(bus) EXCEPT !.sync_listeners[event_type] =
                        SortByPriority(Append(@, [priority |-> priority,
                                                  handler |-> handler]))]
    /\ UNCHANGED <<max_concurrent, semaphore, downloads, tasks, co, dir, data,
                   progress_callbacks, referents, last_notify>>

\* lines 128-131: on_all(handler)
OnAll(handler) ==
    /\ ~bus.emitting
    /\ handler.id \notin Known(bus)
    /\ \A i \in Handlers : i < handler.id => i \in Known(bus)
    /\ bus' = [Forgotten(bus) EXCEPT !.wildcard_listeners = Append(@, handler)]
    /\ UNCHANGED <<max_concurrent, semaphore, downloads, tasks, co, dir, data,
                   progress_callbacks, referents, last_notify>>

\* lines 137-139, 143-145: the entries of a list whose handler is not h
RECURSIVE Without(_, _)
Without(listeners, h) ==
    IF listeners = <<>> THEN <<>>
    ELSE IF Head(listeners).handler.id = h
         THEN Without(Tail(listeners), h)
         ELSE <<Head(listeners)>> \o Without(Tail(listeners), h)

\* lines 133-147: off(event_type, handler)
Off(event_type, h) ==
    /\ ~bus.emitting
    /\ h \in Registered(bus.sync_listeners[event_type])
             \cup Registered(bus.async_listeners[event_type])
    /\ bus' = [Forgotten(bus) EXCEPT
                 !.sync_listeners[event_type] = Without(@, h),
                 !.async_listeners[event_type] = Without(@, h)]
    /\ UNCHANGED <<max_concurrent, semaphore, downloads, tasks, co, dir, data,
                   progress_callbacks, referents, last_notify>>

\* ------------------------------------------------------- EventBus: emission
\* one handler call of the history: which handler, for an event of which
\* type, and how many failed handlers lie between it and the outer emit()
Invocation(h, ty, chain) == [handler |-> h.id, type |-> ty, depth |-> Len(chain)]

\* lines 163-170: the calls of the wildcard handlers, in list order; a
\* raising handler is caught at 169 and the loop goes on
WildcardCalls(b, ty, chain) ==
    [i \in DOMAIN b.wildcard_listeners |->
        Invocation(b.wildcard_listeners[i], ty, chain)]

\* lines 173-177: the calls of the sync handlers of the type, in list order;
\* a raising handler is caught at 176 and the loop goes on
SyncCalls(b, ty, chain) ==
    [i \in DOMAIN b.sync_listeners[ty] |->
        Invocation(b.sync_listeners[ty][i].handler, ty, chain)]

\* lines 180-182: one _safe_handler_call coroutine per async handler of the
\* type, in list order; chain names the handlers whose failures led to this
\* emission
SafeCalls(b, ty, chain) ==
    [i \in DOMAIN b.async_listeners[ty] |->
        [handler |-> b.async_listeners[ty][i].handler, type |-> ty,
         chain |-> chain]]

\* lines 149-185: emit(event) up to its await of gather: the wildcard and
\* the sync handlers have run, and gather has scheduled the coroutines of
\* the async handlers behind those that are already scheduled
Emitted(b, ty, chain) ==
    [b EXCEPT !.trace = @ \o WildcardCalls(b, ty, chain) \o SyncCalls(b, ty, chain),
              !.ready = @ \o SafeCalls(b, ty, chain)]

\* lines 149-185: emit(event) called from outside the bus; with no async
\* handler of the type it returns without waiting (184)
Emit(ty) ==
    /\ ~bus.emitting
    /\ LET e == Emitted([bus EXCEPT !.trace = <<>>, !.event = ty], ty, <<>>)
       IN  bus' = [e EXCEPT !.emitting = (e.ready # <<>>)]
    /\ UNCHANGED <<max_concurrent, semaphore, downloads, tasks, co, dir, data,
                   progress_callbacks, referents, last_notify>>

\* lines 187-198: the event loop runs the oldest scheduled
\* _safe_handler_call: the handler is called (190), and when it raises, the
\* coroutine emits PLUGIN_ERROR (194-198), which calls the wildcard and sync
\* handlers of PLUGIN_ERROR and schedules its async handlers
SafeHandlerCall ==
    /\ bus.ready # <<>>
    /\ Len(bus.trace) < MaxInvocations
    /\ LET t == Head(bus.ready)
           called == [bus EXCEPT
                        !.ready = Tail(@),
                        !.trace = Append(@, Invocation(t.handler, t.type, t.chain))]
       IN  bus' = IF t.handler.raises
                  THEN Emitted(called, PLUGIN_ERROR, Append(t.chain, t.handler.id))
                  ELSE called
    /\ UNCHANGED <<max_concurrent, semaphore, downloads, tasks, co, dir, data,
                   progress_callbacks, referents, last_notify>>

\* line 185: gather completes when every coroutine it scheduled, and every
\* emission those made, is done; the outer emit() returns
EmitReturns ==
    /\ bus.emitting
    /\ bus.ready = <<>>
    /\ bus' = [bus EXCEPT !.emitting = FALSE]
    /\ UNCHANGED <<max_concurrent, semaphore, downloads, tasks, co, dir, data,
                   progress_callbacks, referents, last_notify>>

NextBus ==
    \/ \E ty \in EventTypes, h \in HandlerFns, p \in Priorities : On(ty, h, p)
    \/ \E h \in HandlerFns : OnAll(h)
    \/ \E ty \in EventTypes, h \in Handlers : Off(ty, h)
    \/ \E ty \in EventTypes : Emit(ty)
    \/ SafeHandlerCall
    \/ EmitReturns

SpecBus == Init /\ [][NextBus]_vars

\* ------------------------------------------------------------ claims C38-C39
\* the (priority, handler) pairs on() has registered for the type of the
\* event being emitted
Listening ==
    IF bus.event \in EventTypes
    THEN {bus.sync_listeners[bus.event][i] : i \in DOMAIN bus.sync_listeners[bus.event]}
         \cup {bus.async_listeners[bus.event][i] : i \in DOMAIN bus.async_listeners[bus.event]}
    ELSE {}

\* the place in the history of the first call emit() itself made of handler
\* h for its event, 0 when there is none yet
FirstCall(h) ==
    LET at == {i \in DOMAIN bus.trace : /\ bus.trace[i].handler = h
                                        /\ bus.trace[i].type = bus.event
                                        /\ bus.trace[i].depth = 0}
    IN  IF at = {} THEN 0 ELSE CHOOSE i \in at : \A j \in at : i <= j

\* C38: when an event is emitted, of any two handlers registered with on()
\* for the event's type, sync or async, the one with the higher priority is
\* invoked before the one with the lower priority: a handler has been called
\* only if every handler of higher priority was called before it.
C38_HigherPriorityInvokedFirst ==
    \A e1, e2 \in Listening :
        (e1.priority > e2.priority /\ FirstCall(e2.handler.id) # 0)
            => /\ FirstCall(e1.handler.id) # 0
               /\ FirstCall(e1.handler.id) < FirstCall(e2.handler.id)

\* C39: emit() returns after finitely many handler invocations whichever
\* handlers raise: the report of a failed async handler never schedules that
\* same handler again, so no handler is among the failures that led to its
\* own call.
C39_NoHandlerRetriggersItself ==
    \A i \in DOMAIN bus.ready :
        \A k \in DOMAIN bus.ready[i].chain :
            bus.ready[i].chain[k] # bus.ready[i].handler.id

====
